---- MODULE Spec2Model ----
(***************************************************************************)
(* latex2web: the conversion of a LaTeXML document tree to an HTML page    *)
(* (src/main.rs).  The tree is the one roxmltree builds: node 0 is the     *)
(* document Root, the other nodes are numbered in document order           *)
(* (pre-order) and carry a link to their parent.  Strings are sequences:   *)
(* a payload is a sequence of one-character strings, and an HTML fragment  *)
(* is a sequence whose items are either such characters or one markup      *)
(* literal of a push_str / format! call ("<p>", "</section>", ...).        *)
(***************************************************************************)
EXTENDS Integers, Sequences, FiniteSets, TLC

VARIABLES nodes, corpus, pc, title, author_html, body_html, visited, walked

vars == <<nodes, corpus, pc, title, author_html, body_html, visited, walked>>

(***************************************************************************)
(* Bounds of the model.                                                    *)
(***************************************************************************)
MaxNodes == 4

MaxSections == 10

(***************************************************************************)
(* Small helpers on sequences.                                             *)
(***************************************************************************)
Min(a, b) == IF a < b THEN a ELSE b

Last(s) == s[Len(s)]

RECURSIVE Reverse(_)
Reverse(s) == IF s = <<>> THEN <<>> ELSE Reverse(Tail(s)) \o <<Head(s)>>

Range(s) == {s[i] : i \in 1..Len(s)}

\* The function f on 1..n as a sequence value.
AsSeq(f) == <<>> \o f

(***************************************************************************)
(* The tree (roxmltree::Document).                                         *)
(***************************************************************************)
NoParent == -1

ROOT == 0

Elem(tag, parent) ==
  [kind |-> "element", tag |-> tag, font |-> "", graphic |-> <<>>,
   language |-> <<>>, mode |-> "", text |-> <<>>, parent |-> parent]

TextNode(text, parent) ==
  [kind |-> "text", tag |-> "", font |-> "", graphic |-> <<>>,
   language |-> <<>>, mode |-> "", text |-> text, parent |-> parent]

CommentNode(parent) ==
  [kind |-> "comment", tag |-> "", font |-> "", graphic |-> <<>>,
   language |-> <<>>, mode |-> "", text |-> <<>>, parent |-> parent]

\* node.parent(): None for the Root node.
Parent(T, n) == IF n = ROOT THEN NoParent ELSE T[n].parent

is_text(T, n) == n # ROOT /\ T[n].kind = "text"

is_element(T, n) == n # ROOT /\ T[n].kind = "element"

\* node.has_tag_name(tag): an element whose local name is tag.
has_tag_name(T, n, tag) == is_element(T, n) /\ T[n].tag = tag

RECURSIVE ChildrenFrom(_, _, _)
ChildrenFrom(T, n, i) ==
  IF i > Len(T) THEN <<>>
  ELSE IF T[i].parent = n THEN <<i>> \o ChildrenFrom(T, n, i + 1)
  ELSE ChildrenFrom(T, n, i + 1)

ChildrenReversed(T, n) == Reverse(ChildrenFrom(T, n, 1))

\* node.children(): the children in document order.
Children(T, n) == ChildrenFrom(T, n, 1)

\* node.text(): a text node's payload; for an element, the payload of its
\* first child when that child is a text node; None otherwise.
NodeText(T, n) ==
  IF is_text(T, n) THEN [some |-> TRUE, val |-> T[n].text]
  ELSE IF is_element(T, n)
    THEN LET cs == Children(T, n) IN
         IF cs # <<>> /\ is_text(T, cs[1])
           THEN [some |-> TRUE, val |-> T[cs[1]].text]
           ELSE [some |-> FALSE, val |-> <<>>]
  ELSE [some |-> FALSE, val |-> <<>>]

(***************************************************************************)
(* str::trim                                                               *)
(***************************************************************************)
WhiteSpace == {" ", "\n"}

RECURSIVE TrimStart(_)
TrimStart(s) ==
  IF s # <<>> /\ Head(s) \in WhiteSpace THEN TrimStart(Tail(s)) ELSE s

RECURSIVE TrimEnd(_)
TrimEnd(s) ==
  IF s # <<>> /\ Last(s) \in WhiteSpace
    THEN TrimEnd(SubSeq(s, 1, Len(s) - 1)) ELSE s

Trim(s) == TrimEnd(TrimStart(s))

(***************************************************************************)
(* html_escape                                                             *)
(***************************************************************************)
RECURSIVE Replace(_, _, _)
Replace(s, c, by) ==
  IF s = <<>> THEN <<>>
  ELSE (IF Head(s) = c THEN by ELSE <<Head(s)>>) \o Replace(Tail(s), c, by)

AMP == <<"&", "a", "m", "p", ";">>

LT == <<"&", "l", "t", ";">>

GT == <<"&", "g", "t", ";">>

QUOT == <<"&", "q", "u", "o", "t", ";">>

APOS == <<"&", "#", "3", "9", ";">>

html_escape_amp_last(s) ==
  Replace(Replace(Replace(Replace(Replace(s, "<", LT), ">", GT),
                          "\"", QUOT), "'", APOS), "&", AMP)

html_escape(s) ==
  Replace(Replace(Replace(Replace(Replace(s, "&", AMP), "<", LT), ">", GT),
                  "\"", QUOT), "'", APOS)

(***************************************************************************)
(* get_section_depth, get_all_text, find_element, extract_text_by_tag      *)
(***************************************************************************)
\* The loop of get_section_depth from `current`: the count of `section`
\* nodes met and the set of nodes the walk looked at.
RECURSIVE DepthWalk(_, _)
DepthWalk(T, current) ==
  IF current = NoParent THEN [depth |-> 0, seen |-> {}]
  ELSE LET rest == DepthWalk(T, Parent(T, current)) IN
       [depth |-> rest.depth + (IF has_tag_name(T, current, "section") THEN 1 ELSE 0),
        seen  |-> rest.seen \cup {current}]

get_section_depth(T, n) == DepthWalk(T, Parent(T, n)).depth

RECURSIVE get_all_text(_, _)
RECURSIVE AllTextOf(_, _, _)
AllTextOf(T, cs, i) ==
  IF i > Len(cs) THEN <<>>
  ELSE get_all_text(T, cs[i]) \o AllTextOf(T, cs, i + 1)

get_all_text(T, n) ==
  (IF is_text(T, n) THEN NodeText(T, n).val ELSE <<>>)
    \o AllTextOf(T, Children(T, n), 1)

\* find_element: 0 stands for None (the Root node is never a result).
RECURSIVE find_element(_, _, _)
RECURSIVE FindIn(_, _, _, _)
FindIn(T, cs, i, tag) ==
  IF i > Len(cs) THEN 0
  ELSE LET found == find_element(T, cs[i], tag) IN
       IF found # 0 THEN found ELSE FindIn(T, cs, i + 1, tag)

find_element(T, n, tag) ==
  IF has_tag_name(T, n, tag) THEN n ELSE FindIn(T, Children(T, n), 1, tag)

extract_text_by_tag(T, n, tag) ==
  LET element == find_element(T, n, tag) IN
  IF element # 0
    THEN [some |-> TRUE,
          val  |-> LET t == NodeText(T, element) IN
                   IF t.some THEN t.val ELSE <<>>]
    ELSE [some |-> FALSE, val |-> <<>>]

(***************************************************************************)
(* process_node: the Transducer.  A result carries the fragment, plus two  *)
(* records of the walk that the Rust code does not return: `visited`, the  *)
(* nodes process_node was called on, in call order, and `walked`, the      *)
(* nodes the ancestor loop of get_section_depth looked at.                 *)
(***************************************************************************)
Str(h) == <<h>>

Join(a, b) ==
  [html    |-> a.html \o b.html,
   visited |-> a.visited \o b.visited,
   walked  |-> a.walked \cup b.walked]

Empty == [html |-> <<>>, visited |-> <<>>, walked |-> {}]

\* lines 156-164: a text node.
TextFragmentNoSpace(text) ==
  LET trimmed == Trim(text) IN IF trimmed # <<>> THEN trimmed ELSE <<>>

TextFragment(text) ==
  LET trimmed == Trim(text) IN
  IF trimmed # <<>> THEN trimmed \o <<" ">> ELSE <<>>

\* lines 173-177: the LaTeXML metadata elements that are skipped.
IsSkippedNever(tag) == FALSE

IsSkipped(tag) == tag \in {"tags", "tag", "ref", "bibref"}

SectionArm(kids) == Str("<section>") \o kids \o Str("</section>")

\* lines 189-193: the document title, already in the header.
IsDocumentTitle(T, n) ==
  Parent(T, n) # NoParent /\ has_tag_name(T, Parent(T, n), "document")

HeadingLevelUncapped(level) == level + 1

\* line 196: (level + 1).min(6)
HeadingLevel(level) == Min(level + 1, 6)

TitleArmUnclosed(level, kids) ==
  Str("<h" \o ToString(HeadingLevel(level)) \o ">") \o kids

TitleArm(level, kids) ==
  LET h_tag == "h" \o ToString(HeadingLevel(level)) IN
  Str("<" \o h_tag \o ">") \o kids \o Str("</" \o h_tag \o ">")

ParaArm(kids) == Str("<p>") \o kids \o Str("</p>")

EmphArm(kids) == Str("<em>") \o kids \o Str("</em>")

StrongArm(kids) == Str("<strong>") \o kids \o Str("</strong>")

CodeArm(kids) == Str("<code>") \o kids \o Str("</code>")

ItemArm(kids) == Str("<li>") \o kids \o Str("</li>")

ListArm(tag, items) ==
  IF tag = "itemize" THEN Str("<ul>") \o items \o Str("</ul>")
  ELSE Str("<ol>") \o items \o Str("</ol>")

CellArm(tag, kids) ==
  IF tag = "td" THEN Str("<td>") \o kids \o Str("</td>")
  ELSE Str("<th>") \o kids \o Str("</th>")

RowArm(cells) == Str("<tr>") \o cells \o Str("</tr>")

TableArm(rows) ==
  <<"<div class=\"table-wrapper\">", "<table>">> \o rows
    \o <<"</table>", "</div>">>

RECURSIVE FirstTagged(_, _, _, _)
FirstTagged(T, cs, i, tag) ==
  IF i > Len(cs) THEN 0
  ELSE IF has_tag_name(T, cs[i], tag) THEN cs[i]
  ELSE FirstTagged(T, cs, i + 1, tag)

FigureCaptionDescendant(T, n) ==
  LET c == FindIn(T, Children(T, n), 1, "caption") IN
  IF c # 0 THEN get_all_text(T, c) ELSE <<>>

\* lines 293-296: the text of the first child tagged caption, or "".
FigureCaption(T, n) ==
  LET c == FirstTagged(T, Children(T, n), 1, "caption") IN
  IF c # 0 THEN get_all_text(T, c) ELSE <<>>

FigureArm(src, caption) ==
  Str("<figure>")
    \o Str("<img src=\"") \o src \o Str("\" alt=\"") \o caption \o Str("\">")
    \o (IF caption # <<>>
          THEN Str("<figcaption>") \o caption \o Str("</figcaption>")
          ELSE <<>>)
    \o Str("</figure>")

VerbatimArm(language, code_content) ==
  Str("<pre>") \o Str("<code class=\"language-") \o language \o Str("\">")
    \o html_escape(code_content) \o Str("</code>") \o Str("</pre>")

MathArm(mode, math_content) ==
  IF mode = "display"
    THEN Str("<div class=\"math-display\">")
           \o Str("\\[") \o math_content \o Str("\\]") \o Str("</div>")
    ELSE Str("\\(") \o math_content \o Str("\\)")

UnknownArmWrapped(kids) == Str("<div>") \o kids \o Str("</div>")

\* lines 334-339: an unknown tag gives the fragments of its children.
UnknownArm(kids) == kids

RECURSIVE process_node(_, _)
RECURSIVE RenderAll(_, _, _)
RECURSIVE RenderItems(_, _, _)
RECURSIVE RenderRows(_, _, _)
RECURSIVE RenderCells(_, _, _)

\* for child in cs { html.push_str(&process_node(&child)) }
RenderAll(T, cs, i) ==
  IF i > Len(cs) THEN Empty
  ELSE Join(process_node(T, cs[i]), RenderAll(T, cs, i + 1))

\* lines 238-246 and 251-259: the children tagged item.
RenderItems(T, cs, i) ==
  IF i > Len(cs) THEN Empty
  ELSE Join(IF has_tag_name(T, cs[i], "item")
              THEN LET r == RenderAll(T, Children(T, cs[i]), 1) IN
                   [r EXCEPT !.html = ItemArm(r.html)]
              ELSE Empty,
            RenderItems(T, cs, i + 1))

\* lines 269-283: the cells of a row.
RenderCells(T, cs, i) ==
  IF i > Len(cs) THEN Empty
  ELSE Join(IF has_tag_name(T, cs[i], "td") \/ has_tag_name(T, cs[i], "th")
              THEN LET r == RenderAll(T, Children(T, cs[i]), 1) IN
                   [r EXCEPT !.html = CellArm(T[cs[i]].tag, r.html)]
              ELSE Empty,
            RenderCells(T, cs, i + 1))

\* lines 266-286: the rows of a table.
RenderRows(T, cs, i) ==
  IF i > Len(cs) THEN Empty
  ELSE Join(IF has_tag_name(T, cs[i], "tr")
              THEN LET r == RenderCells(T, Children(T, cs[i]), 1) IN
                   [r EXCEPT !.html = RowArm(r.html)]
              ELSE Empty,
            RenderRows(T, cs, i + 1))

process_node(T, n) ==
  LET self == [html |-> <<>>, visited |-> <<n>>, walked |-> {}]
      node == T[n]
      tag  == node.tag
      cs   == Children(T, n)
      kids == RenderAll(T, cs, 1)
      With(r, html) == Join(self, [r EXCEPT !.html = html])
  IN
  IF is_text(T, n) THEN [self EXCEPT !.html = TextFragment(node.text)]
  ELSE IF ~is_element(T, n) THEN self
  ELSE IF IsSkipped(tag) THEN self
  ELSE
    CASE tag = "section" -> With(kids, SectionArm(kids.html))
      [] tag = "title" ->
           IF IsDocumentTitle(T, n) THEN self
           ELSE Join([self EXCEPT !.walked = DepthWalk(T, Parent(T, n)).seen],
                     [kids EXCEPT !.html = TitleArm(get_section_depth(T, n), kids.html)])
      [] tag \in {"para", "p"} -> With(kids, ParaArm(kids.html))
      [] tag \in {"emph", "em"} -> With(kids, EmphArm(kids.html))
      [] tag = "text" /\ node.font = "bold" -> With(kids, StrongArm(kids.html))
      [] tag = "text" /\ node.font = "typewriter" -> With(kids, CodeArm(kids.html))
      [] tag = "text" /\ node.font \notin {"bold", "typewriter"} -> Join(self, kids)
      [] tag \in {"itemize", "enumerate"} ->
           LET items == RenderItems(T, cs, 1) IN With(items, ListArm(tag, items.html))
      [] tag \in {"tabular", "table"} ->
           LET rows == RenderRows(T, cs, 1) IN With(rows, TableArm(rows.html))
      [] tag \in {"graphics", "figure"} ->
           IF node.graphic # <<>>
             THEN [self EXCEPT !.html = FigureArm(node.graphic[1], FigureCaption(T, n))]
             ELSE Join(self, kids)
      [] tag \in {"verbatim", "lstlisting"} ->
           [self EXCEPT !.html = VerbatimArm(node.language, get_all_text(T, n))]
      [] tag \in {"Math", "math"} ->
           [self EXCEPT !.html = MathArm(node.mode, get_all_text(T, n))]
      [] tag = "creator" -> self
      [] OTHER -> With(kids, UnknownArm(kids.html))

(***************************************************************************)
(* xml_to_html: the metadata, the body fragment and the author paragraph   *)
(* that are substituted into the page template.                            *)
(***************************************************************************)
Untitled == <<"U", "n", "t", "i", "t", "l", "e", "d">>

\* doc.root_element(): the element child of the Root node.
root_element(T) == Children(T, ROOT)[1]

\* lines 68-72: the node the Transducer starts at.
BodyNode(T) ==
  LET root == root_element(T)
      body == find_element(T, root, "document")
  IN IF body # 0 THEN body ELSE root

AuthorHtml(author) ==
  IF author.some /\ author.val # <<>>
    THEN Str("<p class=\"author\">") \o author.val \o Str("</p>")
    ELSE <<>>

xml_to_html(T) ==
  LET root == root_element(T)
      t    == extract_text_by_tag(T, root, "title")
      run  == process_node(T, BodyNode(T))
  IN [title       |-> IF t.some THEN t.val ELSE Untitled,
      author_html |-> AuthorHtml(extract_text_by_tag(T, root, "creator")),
      body_html   |-> run.html,
      visited     |-> run.visited,
      walked      |-> run.walked]

(***************************************************************************)
(* The documents.  Document::parse (line 59) builds the tree in document   *)
(* order: every new node becomes the last child of an element that is      *)
(* still open, i.e. of the last node or one of its ancestors; roxmltree    *)
(* merges adjacent text, so a text node never follows a text sibling, and  *)
(* a text node is never empty.  Each corpus is a family of documents over  *)
(* a few of the tags and attributes process_node looks at; the documents   *)
(* of the corpus "deep" nest sections in one another, then titles.         *)
(***************************************************************************)
WithFont(e, f) == [e EXCEPT !.font = f]

WithGraphic(e, g) == [e EXCEPT !.graphic = <<g>>]

WithLanguage(e, l) == [e EXCEPT !.language = l]

WithMode(e, m) == [e EXCEPT !.mode = m]

Corpora ==
  {"headings", "meta", "inline", "lists", "tables", "figures", "code", "deep"}

ElementsOf(c, T) ==
  CASE c = "headings" ->
         {Elem("document", 0), Elem("section", 0), Elem("title", 0)}
    [] c = "meta" ->
         {Elem("document", 0), Elem("title", 0), Elem("creator", 0), Elem("emph", 0)}
    [] c = "inline" ->
         {Elem("para", 0), Elem("foo", 0), Elem("text", 0),
          WithFont(Elem("text", 0), "bold"), WithFont(Elem("text", 0), "typewriter")}
    [] c = "lists" ->
         {Elem("itemize", 0), Elem("enumerate", 0), Elem("item", 0), Elem("ref", 0)}
    [] c = "tables" ->
         {Elem("tabular", 0), Elem("tr", 0), Elem("td", 0), Elem("th", 0)}
    [] c = "figures" ->
         {WithGraphic(Elem("figure", 0), <<"x">>), Elem("graphics", 0),
          Elem("caption", 0), Elem("tag", 0)}
    [] c = "code" ->
         {WithLanguage(Elem("verbatim", 0), <<"p", "y">>), Elem("Math", 0),
          WithMode(Elem("math", 0), "display"), Elem("tags", 0), Elem("p", 0)}
    [] c = "deep" ->
         IF T = <<>> \/ Last(T).tag = "section"
           THEN {Elem("section", 0), Elem("title", 0)}
           ELSE {Elem("title", 0)}
    [] OTHER -> {}

TextsOf(c) ==
  CASE c = "inline" -> {<<" ", "a", " ">>, <<" ">>}
    [] c = "code" -> {<<"&">>, <<"<">>, <<">">>, <<"\"">>, <<"'">>, <<"a">>, <<"<", "&">>}
    [] c = "example" -> {}
    [] OTHER -> {<<"a">>}

HasComments(c) == c = "meta"

Limit(c) ==
  CASE c = "deep" -> MaxSections + 2
    [] c = "example" -> 0
    [] c \in {"code", "inline", "meta"} -> MaxNodes - 1
    [] OTHER -> MaxNodes

\* The last node and its ancestors.
RECURSIVE PathTo(_, _)
PathTo(T, n) == IF n = ROOT THEN {} ELSE {n} \cup PathTo(T, T[n].parent)

\* The elements a new node can be appended to.
OpenElements(T, c) ==
  IF T = <<>> THEN {ROOT}
  ELSE IF c = "deep" THEN {n \in {Len(T)} : is_element(T, n)}
  ELSE {n \in PathTo(T, Len(T)) : is_element(T, n)}

LastChildIsText(T, p) ==
  LET cs == Children(T, p) IN cs # <<>> /\ is_text(T, Last(cs))

(***************************************************************************)
(* The documents of the worked examples.                                   *)
(***************************************************************************)
\* document > title:"Hi", para > text:"Hello " + text[font=bold]:"world"
ExHello ==
  << Elem("document", 0),
     Elem("title", 1), TextNode(<<"H", "i">>, 2),
     Elem("para", 1),
     Elem("text", 4), TextNode(<<"H", "e", "l", "l", "o", " ">>, 5),
     WithFont(Elem("text", 4), "bold"), TextNode(<<"w", "o", "r", "l", "d">>, 7) >>

\* verbatim[language="py"] containing a<b
ExVerbatim ==
  << WithLanguage(Elem("verbatim", 0), <<"p", "y">>),
     TextNode(<<"a", "<", "b">>, 1) >>

\* graphics[graphic="x.png"] with child caption:"Fig 1"
ExGraphics ==
  << WithGraphic(Elem("graphics", 0), <<"x", ".", "p", "n", "g">>),
     Elem("caption", 1), TextNode(<<"F", "i", "g", " ", "1">>, 2) >>

\* the same text a<b&c in a code block and in a formula
ExAsymmetry ==
  << Elem("document", 0),
     Elem("lstlisting", 1), TextNode(<<"a", "<", "b", "&", "c">>, 2),
     Elem("Math", 1), TextNode(<<"a", "<", "b", "&", "c">>, 4) >>

Examples == {ExHello, ExVerbatim, ExGraphics, ExAsymmetry}

(***************************************************************************)
(* The state machine: the parser builds a document, xml_to_html converts.  *)
(***************************************************************************)
Init ==
  /\ \/ nodes = <<>> /\ corpus \in Corpora
     \/ nodes \in Examples /\ corpus = "example"
  /\ pc = "parsing"
  /\ title = <<>>
  /\ author_html = <<>>
  /\ body_html = <<>>
  /\ visited = <<>>
  /\ walked = {}

Results == <<title, author_html, body_html, visited, walked>>

StartElement ==
  /\ pc = "parsing"
  /\ Len(nodes) < Limit(corpus)
  /\ \E e \in ElementsOf(corpus, nodes), p \in OpenElements(nodes, corpus) :
       nodes' = Append(nodes, [e EXCEPT !.parent = p])
  /\ UNCHANGED <<corpus, pc, Results>>

Characters ==
  /\ pc = "parsing"
  /\ Len(nodes) < Limit(corpus)
  /\ \E t \in TextsOf(corpus), p \in OpenElements(nodes, corpus) \ {ROOT} :
       /\ ~LastChildIsText(nodes, p)
       /\ nodes' = Append(nodes, TextNode(t, p))
  /\ UNCHANGED <<corpus, pc, Results>>

Comment ==
  /\ pc = "parsing"
  /\ Len(nodes) < Limit(corpus)
  /\ HasComments(corpus)
  /\ \E p \in OpenElements(nodes, corpus) \ {ROOT} :
       nodes' = Append(nodes, CommentNode(p))
  /\ UNCHANGED <<corpus, pc, Results>>

Convert ==
  /\ pc = "parsing"
  /\ nodes # <<>>
  /\ LET out == xml_to_html(nodes) IN
       /\ title' = out.title
       /\ author_html' = out.author_html
       /\ body_html' = out.body_html
       /\ visited' = out.visited
       /\ walked' = out.walked
  /\ pc' = "done"
  /\ UNCHANGED <<nodes, corpus>>

Next == StartElement \/ Characters \/ Comment \/ Convert

Spec == Init /\ [][Next]_vars

(***************************************************************************)
(* Vocabulary of the properties, stated on the tree and not through the    *)
(* functions above.                                                        *)
(***************************************************************************)
Done == pc = "done"

Ids == 1..Len(nodes)

\* The proper ancestors of n that are elements (the Root node excluded).
Ancestors(n) == {a \in Ids : a # n /\ a \in PathTo(nodes, n)}

Subtree(n) == {d \in Ids : n \in PathTo(nodes, d)}

TagOf(n) == IF n \in Ids /\ nodes[n].kind = "element" THEN nodes[n].tag ELSE ""

Tagged(tags) == {n \in Ids : nodes[n].kind = "element" /\ nodes[n].tag \in tags}

Visited == Range(visited)

Fragment(n) == process_node(nodes, n).html

RECURSIVE Concat(_)
Concat(ss) == IF ss = <<>> THEN <<>> ELSE Head(ss) \o Concat(Tail(ss))

\* The fragments of the children of n, concatenated in child order.
ChildFragments(n) ==
  LET cs == Children(nodes, n) IN
  Concat(AsSeq([i \in 1..Len(cs) |-> Fragment(cs[i])]))

IsInfix(s, t) ==
  \E i \in 0..(Len(t) - Len(s)) : SubSeq(t, i + 1, i + Len(s)) = s

DroppedTags == {"tags", "tag", "ref", "bibref"}

FlattenTags == {"verbatim", "lstlisting", "Math", "math", "caption"}

(***************************************************************************)
(* C1: every title the Transducer renders (its parent is not `document`)   *)
(* with N ancestors tagged `section` is emitted as <hK>...</hK> with       *)
(* K = min(N+1, 6), so K is in 1..6; N ranges over 0..5 and 10.            *)
(***************************************************************************)
RenderedTitles ==
  {t \in Visited \cap Tagged({"title"}) : TagOf(nodes[t].parent) # "document"}

SectionAncestors(n) == Ancestors(n) \cap Tagged({"section"})

\* C1: a rendered title with N section ancestors is <hK>...</hK>, K = min(N+1, 6).
C1_HeadingLevel ==
  Done =>
    \A t \in RenderedTitles :
      LET N == Cardinality(SectionAncestors(t))
          K == IF N + 1 <= 6 THEN N + 1 ELSE 6
          h == Fragment(t)
      IN /\ K \in 1..6
         /\ h = Str("<h" \o ToString(K) \o ">") \o ChildFragments(t)
                  \o Str("</h" \o ToString(K) \o ">")
         /\ IsInfix(h, body_html)

C1_Witness ==
  /\ Done
  /\ \E t \in RenderedTitles :
       Cardinality(SectionAncestors(t)) = 10 /\ Head(Fragment(t)) = "<h6>"

(***************************************************************************)
(* C2: the text extracted for a metadata tag (page title from `title`,     *)
(* author from `creator`) is the flattened text of the first element with  *)
(* that tag in pre-order, i.e. the payloads of all its descendant text     *)
(* nodes in document order, and none when no element matches.              *)
(***************************************************************************)
FirstInPreorder(tag) ==
  LET hits == Tagged({tag}) IN
  IF hits = {} THEN 0 ELSE CHOOSE n \in hits : \A m \in hits : n <= m

\* The payloads of the text nodes below n, in document order.
Flattened(n) ==
  LET below == Subtree(n) IN
  Concat(AsSeq([i \in Ids |->
            IF i \in below /\ nodes[i].kind = "text" THEN nodes[i].text ELSE <<>>]))

\* C2: the page title and the author are the flattened text of the first
\* title and the first creator in pre-order.
C2_FlattenedMetadata ==
  Done =>
    LET t == FirstInPreorder("title")
        c == FirstInPreorder("creator")
    IN /\ title = (IF t # 0 THEN Flattened(t) ELSE Untitled)
       /\ author_html =
            (IF c # 0 /\ Flattened(c) # <<>>
               THEN Str("<p class=\"author\">") \o Flattened(c) \o Str("</p>")
               ELSE <<>>)

(***************************************************************************)
(* C3: for the document `document > title:"Hi"`, `document > para >        *)
(* text:"Hello "` + `text[font=bold]:"world"`, the body fragment is        *)
(* exactly <p>Hello <strong>world</strong></p>, the page title is "Hi",    *)
(* and there is no author paragraph.                                       *)
(***************************************************************************)
\* C3: the body of the example is <p>Hello <strong>world</strong></p>.
C3_HelloWorld ==
  (Done /\ nodes = ExHello) =>
    /\ body_html = <<"<p>", "H", "e", "l", "l", "o", " ",
                     "<strong>", "w", "o", "r", "l", "d", "</strong>", "</p>">>
    /\ title = <<"H", "i">>
    /\ author_html = <<>>

\* C3 as amended: every non-blank text node is followed by one space, so
\* the body fragment is <p>Hello <strong>world </strong></p>.
C3_HelloWorldSpaced ==
  (Done /\ nodes = ExHello) =>
    /\ body_html = <<"<p>", "H", "e", "l", "l", "o", " ",
                     "<strong>", "w", "o", "r", "l", "d", " ", "</strong>", "</p>">>
    /\ title = <<"H", "i">>
    /\ author_html = <<>>

C3_Witness == Done /\ nodes = ExHello /\ Len(visited) = 7

(***************************************************************************)
(* C4: an element tagged tags, tag, ref or bibref inside the transduced    *)
(* subtree contributes no character to the output fragment, nor does       *)
(* anything below it, and the Transducer never descends into it, whatever  *)
(* its ancestors are (verbatim/lstlisting, Math/math and caption           *)
(* included).                                                              *)
(***************************************************************************)
Body == BodyNode(nodes)

DroppedInBody == Subtree(Body) \cap Tagged(DroppedTags)

\* The tree without the subtree of d: d is no child of any node.
Detach(T, d) == [T EXCEPT ![d].parent = NoParent]

BodyWithout(d) == process_node(Detach(nodes, d), Body).html

NeverDescended(d) == \A v \in Visited : v = d \/ v \notin Subtree(d)

\* C4: the output is the same with a dropped element removed, wherever it is.
C4_DroppedEverywhere ==
  Done =>
    \A d \in DroppedInBody :
      /\ NeverDescended(d)
      /\ body_html = BodyWithout(d)

\* C4 as amended: the Transducer gives a dropped element the empty
\* fragment and never descends into it, and the element contributes
\* nothing to the output unless it lies below an element whose content is
\* flattened (verbatim/lstlisting, Math/math, caption): the flattener does
\* not skip dropped tags.
Flattening(d) == Ancestors(d) \cap Tagged(FlattenTags) # {}

\* C4 as amended, for the dropped elements outside flattened content.
C4_DroppedByTransducer ==
  Done =>
    \A d \in DroppedInBody :
      /\ NeverDescended(d)
      /\ d \in Visited => Fragment(d) = <<>>
      /\ ~Flattening(d) => body_html = BodyWithout(d)

C4_Witness ==
  /\ Done
  /\ \E d \in DroppedInBody \cap Visited :
       /\ \E c \in Subtree(d) : nodes[c].kind = "text"
       /\ \E v \in Visited : v > d /\ Fragment(v) # <<>>

(***************************************************************************)
(* C5: a graphics/figure element with graphic attribute S is rendered as   *)
(* <figure><img src="S" alt="C">, then <figcaption>C</figcaption> only     *)
(* when C is non-empty, then </figure>, C being the flattened text of a    *)
(* descendant tagged caption (empty if there is none), and its other       *)
(* children are not rendered; without the attribute the output is the      *)
(* concatenation of the renderings of its children.                        *)
(***************************************************************************)
Figures == Visited \cap Tagged({"graphics", "figure"})

FigureHtml(S, C) ==
  <<"<figure>", "<img src=\"">> \o S \o <<"\" alt=\"">> \o C \o <<"\">">>
    \o (IF C = <<>> THEN <<>> ELSE <<"<figcaption>">> \o C \o <<"</figcaption>">>)
    \o <<"</figure>">>

DescendantCaptions(g) == (Subtree(g) \ {g}) \cap Tagged({"caption"})

ChildCaptions(g) == {c \in Tagged({"caption"}) : nodes[c].parent = g}

\* C5: the caption text C of a figure is that of a descendant tagged caption.
C5_FigureDescendantCaption ==
  Done =>
    \A g \in Figures :
      IF nodes[g].graphic # <<>>
        THEN /\ \E C \in (IF DescendantCaptions(g) = {} THEN {<<>>}
                          ELSE {Flattened(c) : c \in DescendantCaptions(g)}) :
                  Fragment(g) = FigureHtml(nodes[g].graphic[1], C)
             /\ Visited \cap Subtree(g) = {g}
        ELSE Fragment(g) = ChildFragments(g)

\* C5 as amended: C is the flattened text of the first direct child tagged
\* caption, and empty when no direct child is tagged caption.
C5_FigureChildCaption ==
  /\ Done =>
       \A g \in Figures :
         IF nodes[g].graphic # <<>>
           THEN /\ LET caps == ChildCaptions(g)
                       C == IF caps = {} THEN <<>>
                            ELSE Flattened(CHOOSE c \in caps : \A k \in caps : c <= k)
                   IN Fragment(g) = FigureHtml(nodes[g].graphic[1], C)
                /\ Visited \cap Subtree(g) = {g}
           ELSE Fragment(g) = ChildFragments(g)
  /\ (Done /\ nodes = ExGraphics) =>
       body_html = <<"<figure>", "<img src=\"", "x", ".", "p", "n", "g", "\" alt=\"",
                     "F", "i", "g", " ", "1", "\">",
                     "<figcaption>", "F", "i", "g", " ", "1", "</figcaption>",
                     "</figure>">>

C5_Witness ==
  /\ Done
  /\ \E g \in Figures :
       /\ nodes[g].graphic # <<>>
       /\ \E c \in ChildCaptions(g) : Flattened(c) # <<>>
       /\ \E k \in Ids : nodes[k].parent = g /\ k \notin ChildCaptions(g)

(***************************************************************************)
(* C6: the code body of a verbatim/lstlisting element is                   *)
(* escape(flatten(node)): & < > " ' become &amp; &lt; &gt; &quot; &#39;    *)
(* with & replaced first, so no entity is escaped again and the body holds *)
(* no raw < > " or '; the payload of a Math/math element is flatten(node)  *)
(* with no character escaped.                                              *)
(***************************************************************************)
Entity(c) ==
  CASE c = "&" -> <<"&", "a", "m", "p", ";">>
    [] c = "<" -> <<"&", "l", "t", ";">>
    [] c = ">" -> <<"&", "g", "t", ";">>
    [] c = "\"" -> <<"&", "q", "u", "o", "t", ";">>
    [] c = "'" -> <<"&", "#", "3", "9", ";">>
    [] OTHER -> <<c>>

\* Every character replaced by its entity, once.
Escaped(s) == Concat(AsSeq([i \in 1..Len(s) |-> Entity(s[i])]))

CodeBlocks == Visited \cap Tagged({"verbatim", "lstlisting"})

Maths == Visited \cap Tagged({"Math", "math"})

\* C6: code bodies are escaped character by character, formulas are not.
C6_EscapingAsymmetry ==
  Done =>
    /\ \A v \in CodeBlocks :
         LET body == Escaped(Flattened(v)) IN
         /\ Fragment(v) = <<"<pre>", "<code class=\"language-">> \o nodes[v].language
                            \o <<"\">">> \o body \o <<"</code>", "</pre>">>
         /\ \A i \in 1..Len(body) : body[i] \notin {"<", ">", "\"", "'"}
    /\ \A m \in Maths :
         Fragment(m) =
           IF nodes[m].mode = "display"
             THEN <<"<div class=\"math-display\">", "\\[">> \o Flattened(m)
                    \o <<"\\]", "</div>">>
             ELSE <<"\\(">> \o Flattened(m) \o <<"\\)">>

C6_Witness ==
  /\ Done
  /\ \E v \in CodeBlocks : {"&", "<"} \subseteq Range(Flattened(v))
  /\ \E m \in Maths : "&" \in Range(Flattened(m))

(***************************************************************************)
(* C7: an element whose tag is neither recognised nor dropped is rendered  *)
(* as the concatenation of the renderings of its children, with no         *)
(* wrapper; so wrapping any renderable subtree in an unknown element does  *)
(* not change the output fragment.                                         *)
(***************************************************************************)
RecognisedTags ==
  {"section", "title", "para", "p", "emph", "em", "text", "itemize", "enumerate",
   "tabular", "table", "graphics", "figure", "verbatim", "lstlisting",
   "Math", "math", "creator"}

UnknownElements ==
  {u \in Visited : nodes[u].kind = "element"
                     /\ nodes[u].tag \notin RecognisedTags \cup DroppedTags}

\* The tree with a new element `foo` put between x and its parent; the
\* nodes from x on move one place down in document order.
WrapIn(T, x) ==
  AsSeq([i \in 1..(Len(T) + 1) |->
     IF i < x THEN T[i]
     ELSE IF i = x THEN Elem("foo", T[x].parent)
     ELSE IF i = x + 1 THEN [T[x] EXCEPT !.parent = x]
     ELSE [T[i - 1] EXCEPT !.parent = IF @ >= x THEN @ + 1 ELSE @]])

BodyOf(T) == process_node(T, BodyNode(T)).html

\* C7: unknown elements are transparent and wrapping a rendered node in one
\* leaves the output unchanged.
C7_UnknownTransparent ==
  Done =>
    /\ \A u \in UnknownElements : Fragment(u) = ChildFragments(u)
    /\ \A x \in Visited : BodyOf(WrapIn(nodes, x)) = body_html

\* C7 as amended: the wrapped node is any node the Transducer renders
\* other than a title that is a direct child of a `document` element (such
\* a title is skipped, and becomes a heading once it is wrapped).
C7_UnknownTransparentButTitle ==
  Done =>
    /\ \A u \in UnknownElements : Fragment(u) = ChildFragments(u)
    /\ \A x \in Visited :
         ~(TagOf(x) = "title" /\ TagOf(nodes[x].parent) = "document")
           => BodyOf(WrapIn(nodes, x)) = body_html

C7_Witness ==
  /\ Done
  /\ \E u \in UnknownElements :
       /\ TagOf(u) = "foo"
       /\ \E c \in Visited : nodes[c].parent = u /\ TagOf(c) = "para"
       /\ Fragment(u) \notin {<<>>, <<"<p>", "</p>">>}

(***************************************************************************)
(* C8: a title whose parent is the document root element contributes       *)
(* nothing to the body fragment; every other title reached by the          *)
(* Transducer is rendered as a heading.                                    *)
(***************************************************************************)
HeadingOpen == {"<h" \o ToString(k) \o ">" : k \in 1..6}

\* C8: only a title directly under the document root is skipped; every other
\* title the Transducer reaches is a heading.
C8_OnlyDocumentTitleSkipped ==
  Done =>
    \A t \in Visited \cap Tagged({"title"}) :
      IF TagOf(Body) = "document" /\ nodes[t].parent = Body
        THEN Fragment(t) = <<>>
        ELSE Fragment(t) # <<>> /\ Head(Fragment(t)) \in HeadingOpen

(***************************************************************************)
(* C9: in one transduction from the chosen root (the first `document` in   *)
(* pre-order, else the root element) child fragments are concatenated in   *)
(* document order, every node is visited at most once, and no node outside *)
(* the chosen root's subtree is visited or influences the output, the      *)
(* ancestor walk of a title's section depth included.                      *)
(***************************************************************************)
ChosenRoot ==
  IF Tagged({"document"}) = {} THEN 1 ELSE FirstInPreorder("document")

VisitedOnceInOrder ==
  /\ \A i, j \in 1..Len(visited) : i < j => visited[i] < visited[j]
  /\ Visited \subseteq Subtree(ChosenRoot)
  /\ visited # <<>> /\ visited[1] = ChosenRoot

\* The chosen root's subtree on its own: the chosen root hangs from Root.
Isolate(T, b) == [T EXCEPT ![b].parent = ROOT]

\* C9: the output is that of the chosen root's subtree taken on its own.
C9_NothingOutsideBody ==
  Done =>
    /\ VisitedOnceInOrder
    /\ body_html = process_node(Isolate(nodes, ChosenRoot), ChosenRoot).html

\* C9 as amended: process_node visits each node of the chosen root's
\* subtree at most once, in document order, and no node outside it; the
\* ancestor walk of get_section_depth goes on above the chosen root up to
\* the Root, so the ancestors of the chosen root, and only they among the
\* nodes outside, can change the output (a heading level).
Scrub(T, b) ==
  LET kept == Subtree(b) \cup PathTo(T, b) IN
  AsSeq([i \in 1..Len(T) |-> IF i \in kept THEN T[i] ELSE CommentNode(T[i].parent)])

\* C9 as amended, with the ancestors of the chosen root kept.
C9_OnlyAncestorsOutsideBody ==
  Done =>
    /\ VisitedOnceInOrder
    /\ walked = UNION {PathTo(nodes, nodes[t].parent) \cup {ROOT} : t \in RenderedTitles}
    /\ body_html = process_node(Scrub(nodes, ChosenRoot), ChosenRoot).html

C9_Witness ==
  /\ Done
  /\ ChosenRoot # 1
  /\ Len(visited) >= 3
  /\ \E t \in RenderedTitles : SectionAncestors(t) \ Subtree(ChosenRoot) # {}

(***************************************************************************)
(* C10: when no text payload holds a markup character, the HTML tags the   *)
(* Transducer emits are balanced and properly nested: every opening tag is *)
(* closed by the matching closing tag, last opened first closed, and none  *)
(* is left open, on every path through the dispatch.                       *)
(***************************************************************************)
TagNames ==
  {"section", "h1", "h2", "h3", "h4", "h5", "h6", "p", "em", "strong", "code",
   "ul", "ol", "li", "div", "table", "tr", "td", "th", "figure", "figcaption", "pre"}

OpenLiterals ==
  {<<"<" \o n \o ">", n>> : n \in TagNames}
    \cup {<<"<code class=\"language-", "code">>,
          <<"<div class=\"table-wrapper\">", "div">>,
          <<"<div class=\"math-display\">", "div">>}

CloseLiterals == {<<"</" \o n \o ">", n>> : n \in TagNames}

\* The tag a markup literal opens or closes ("" when it does neither).
Opens(tok) ==
  IF \E l \in OpenLiterals : l[1] = tok
    THEN (CHOOSE l \in OpenLiterals : l[1] = tok)[2] ELSE ""

Closes(tok) ==
  IF \E l \in CloseLiterals : l[1] = tok
    THEN (CHOOSE l \in CloseLiterals : l[1] = tok)[2] ELSE ""

\* What is left open after the tokens s, read with `open` already open;
\* <<"!">> when a closing tag does not match the last tag opened.
RECURSIVE OpenAfter(_, _)
OpenAfter(s, open) ==
  IF s = <<>> THEN open
  ELSE IF Opens(Head(s)) # "" THEN OpenAfter(Tail(s), <<Opens(Head(s))>> \o open)
  ELSE IF Closes(Head(s)) # ""
    THEN IF open # <<>> /\ Head(open) = Closes(Head(s))
           THEN OpenAfter(Tail(s), Tail(open))
           ELSE <<"!">>
  ELSE OpenAfter(Tail(s), open)

Balanced(s) == OpenAfter(s, <<>>) = <<>>

MarkupChars == {"<", ">", "&", "\"", "'"}

PlainText == \A n \in Ids : Range(nodes[n].text) \cap MarkupChars = {}

====
